---- MODULE Spec2Model ----
(***************************************************************************)
(* A model of audioldm/pipeline.py: the batch builder, the conditioning    *)
(* selector and the three generation entry points.                         *)
(*                                                                         *)
(* Numbers that Python holds as floats are held as integers in tenths:     *)
(* duration (tenths of a second), transfer_strength and guidance_scale     *)
(* (tenths).  For every value the model draws, int() of the float product  *)
(* in the code equals the truncation of the exact product computed here.   *)
(* A tensor is modelled by its shape, a sequence of dimension sizes.       *)
(***************************************************************************)
EXTENDS Integers, Sequences, FiniteSets, TLC

VARIABLES
    model,      \* the LatentDiffusion object's fields the pipeline writes
    last,       \* the most recent entry-point call and what it did
    memo,       \* an earlier call kept for comparison with a later one
    args,       \* inputs of the pure functions
    batch_ret,  \* what make_batch_for_text_to_audio(args) returned
    lts_ret,    \* what duration_to_latent_t_size(args.duration) returned
    req,        \* per request: position inside text_to_audio
    serialized, \* TRUE when the caller serializes requests on the model
    lock,       \* the caller's lock: 0 when free, else the holding request
    writer      \* which request last wrote each shared field of the model

vars == <<model, last, memo, args, batch_ret, lts_ret, req, serialized, lock, writer>>

-----------------------------------------------------------------------------
(* Bounds of the model *)

MaxBatch == 3
MaxNegBatch == 2
MaxLead == 3
MaxDur == 100
MaxNegDur == 30

-----------------------------------------------------------------------------
(* Python / torch primitives *)

\* Python's None where a tensor is expected
NoTensor == <<>>

\* int(n / d) for d > 0: Python's int() truncates toward zero
Trunc(n, d) == IF n >= 0 THEN n \div d ELSE -((-n) \div d)

\* math.floor(n / d) for d > 0
Floor(n, d) == n \div d

\* [x] * n: a list of n copies, empty when n <= 0
ListRepeat(x, n) == [i \in 1..(IF n > 0 THEN n ELSE 0) |-> x]

\* torch.zeros(shape): a negative dimension raises RuntimeError
zeros(shape) ==
    IF \E i \in 1..Len(shape) : shape[i] < 0
    THEN [err |-> "RuntimeError", shape |-> NoTensor]
    ELSE [err |-> "none", shape |-> shape]

\* one dimension of Tensor.expand: have = 0 stands for a new leading dimension
ExpandDim(have, want) ==
    IF have = 0 THEN (IF want >= 0 THEN want ELSE -2)
    ELSE IF want = -1 THEN have
    ELSE IF want < -1 THEN -2
    ELSE IF have = want THEN want
    ELSE IF have = 1 THEN want
    ELSE -2

expand_unchecked(shape, sizes) ==
    [err |-> "none",
     shape |-> IF Len(shape) = Len(sizes) THEN shape ELSE <<sizes[1]>> \o shape]

\* Tensor.expand(*sizes): dimensions are aligned from the right, -1 keeps a
\* dimension, a size-1 dimension is broadcast, anything else raises RuntimeError
expand(shape, sizes) ==
    LET k == Len(sizes) - Len(shape)
        dims == [i \in 1..Len(sizes) |->
                    ExpandDim(IF i - k >= 1 THEN shape[i - k] ELSE 0, sizes[i])]
    IN  IF k < 0 \/ \E i \in 1..Len(sizes) : dims[i] = -2
        THEN [err |-> "RuntimeError", shape |-> NoTensor]
        ELSE [err |-> "none", shape |-> dims]

-----------------------------------------------------------------------------
(* make_batch_for_text_to_audio *)

Failed(e, warned) == [err |-> e, warned |-> warned, batch |-> <<>>]

\* lines 21-22 print a warning and leave batchsize as it was given
batchsize_clamped(batchsize) == IF batchsize < 1 THEN 1 ELSE batchsize

batchsize_after_warning(batchsize) == batchsize

fname_single(batchsize) == ListRepeat("", 1)

fname_list(batchsize) == ListRepeat("", batchsize)

make_batch_for_text_to_audio(text, waveform, fbank, batchsize0) ==
    LET textl == ListRepeat(text, batchsize0)                       \* line 20
        warned == batchsize0 < 1                                    \* lines 21-22
        batchsize == batchsize_after_warning(batchsize0)
        fb == IF fbank = NoTensor
              THEN zeros(<<batchsize, 1024, 64>>)                   \* line 25
              ELSE expand(fbank, <<batchsize, 1024, 64>>)           \* line 28
        stft == zeros(<<batchsize, 1024, 512>>)                     \* line 31
        wv == IF waveform = NoTensor
              THEN zeros(<<batchsize, 160000>>)                     \* line 34
              ELSE expand(waveform, <<batchsize, -1>>)              \* line 37
        fname == fname_list(batchsize)                              \* line 40
    IN  IF fb.err # "none" THEN Failed(fb.err, warned)
        ELSE IF fbank # NoTensor /\ fb.shape[1] # batchsize         \* line 29
             THEN Failed("AssertionError", warned)
        ELSE IF stft.err # "none" THEN Failed(stft.err, warned)
        ELSE IF wv.err # "none" THEN Failed(wv.err, warned)
        ELSE IF waveform # NoTensor /\ wv.shape[1] # batchsize      \* line 38
             THEN Failed("AssertionError", warned)
        ELSE [err |-> "none", warned |-> warned,
              batch |-> <<fb.shape, stft.shape, NoTensor, fname, wv.shape, textl>>]

-----------------------------------------------------------------------------
(* duration_to_latent_t_size: int(duration * 25.6), duration in tenths *)

duration_to_latent_t_size_floor(duration) == Floor(duration * 256, 100)

duration_to_latent_t_size(duration) == Trunc(duration * 256, 100)

-----------------------------------------------------------------------------
(* The model object and the conditioning selector *)

set_cond_audio_wrong_key(latent_diffusion) ==
    [latent_diffusion EXCEPT !.cond_stage_key = "text", !.embed_mode = "audio"]

set_cond_audio(latent_diffusion) ==
    [latent_diffusion EXCEPT !.cond_stage_key = "waveform",     \* line 90
                             !.embed_mode = "audio"]            \* line 91

set_cond_text_noop(latent_diffusion) == latent_diffusion

set_cond_text(latent_diffusion) ==
    [latent_diffusion EXCEPT !.cond_stage_key = "text",         \* line 95
                             !.embed_mode = "text"]             \* line 96

-----------------------------------------------------------------------------
(* Inputs of the entry points *)

NonePath == "None"
Texts == {"a dog barking"}
AudioPaths == {NonePath, "ref.wav"}
Seeds == {0, 42}
Durations == {50, 100}
\* einops.repeat in style_transfer is given positive batch sizes only
BatchSizes(entry) == IF entry = "style_transfer" THEN {1, 2} ELSE {-1, 1, 2}
GuidanceScales == {10, 25}
DdimSteps == {2, 3}
TransferStrengths == {0, 5, 10}

\* guidance_scale 1.0, in tenths
GuidanceOne == 10

Calls(entry) ==
    [entry : {entry}, text : Texts, audio : AudioPaths, seed : Seeds,
     duration : Durations, batchsize : BatchSizes(entry), guidance_scale : GuidanceScales,
     ddim_steps : DdimSteps,
     transfer_strength : IF entry = "style_transfer" THEN TransferStrengths ELSE {0}]

\* The calls of the determinism check: the arguments that do not touch the
\* model's fields are held at one value each
DetCalls(entry) ==
    {c \in Calls(entry) : /\ c.batchsize = 1 /\ c.guidance_scale = 25
                          /\ c.ddim_steps = 2 /\ c.transfer_strength \in {0, 5}}

\* duration=10, the default of the entry points, in tenths
DefaultDuration == 100

\* the model as build_model returns it: text conditioning (lines 70, 83) and
\* the latent_t_size of its configuration (line 73), which is the size of the
\* default duration
BuiltModel ==
    [cond_stage_key |-> "text", embed_mode |-> "text",
     latent_t_size |-> duration_to_latent_t_size(DefaultDuration)]

-----------------------------------------------------------------------------
(* Collaborators outside pipeline.py *)

\* read_wav_file(path, segment_length): one waveform of segment_length samples
read_wav_file(path, segment_length) == <<1, segment_length>>

\* wav_to_fbank(path, target_length): a mel spectrogram of target_length frames
wav_to_fbank(path, target_length) == <<target_length, 64>>

\* DDIMSampler.make_schedule(ddim_num_steps): the indices that have coefficients
make_schedule(ddim_num_steps) == 0 .. (ddim_num_steps - 1)

\* DDIMSampler.decode(z, c, t_start): the schedule indices of its iterations,
\* from t_start - 1 down to 0
decode_timesteps(t_start) == [i \in 1..(IF t_start > 0 THEN t_start ELSE 0) |-> t_start - i]

\* the events of a call that draw from the global random generator
RandomDraws ==
    {"generate_sample", "generate_sample_masked", "get_first_stage_encoding",
     "stochastic_encode", "decode"}

NoView == [cond_stage_key |-> "-", embed_mode |-> "-", latent_t_size |-> 0]

\* what a call did, before anything happened
Blank(c) ==
    [call |-> c, err |-> "none", events |-> <<>>, invoked |-> FALSE,
     view |-> NoView, rng_seed |-> -1, uc |-> -1, decode_uc |-> "None",
     schedule |-> {}, t_enc |-> -1, encode_t |-> -1, decode_t_start |-> -1,
     timesteps |-> <<>>]

NoCall ==
    [entry |-> "none", text |-> "", audio |-> NonePath, seed |-> 0, duration |-> 0,
     batchsize |-> 0, guidance_scale |-> 0, ddim_steps |-> 0, transfer_strength |-> 0]

-----------------------------------------------------------------------------
(* The entry points.  Each takes the call and the model object and gives    *)
(* the model object it leaves behind and the record of what it did.        *)

Fail(o, e, events) == [o EXCEPT !.err = e, !.events = events]

text_to_audio(c, latent_diffusion) ==
    LET o == [Blank(c) EXCEPT !.rng_seed = c.seed]                       \* line 111
        given == c.audio # NonePath                                      \* line 114
        waveform == IF given
                    THEN read_wav_file(c.audio,
                                       Trunc(c.duration * 1024, 100) * 160)  \* line 115
                    ELSE NoTensor                                        \* line 113
        e1 == <<"seed_everything">> \o
              (IF given THEN <<"read_wav_file">> ELSE <<>>)
        batch == make_batch_for_text_to_audio(c.text, waveform, NoTensor,
                                              c.batchsize)               \* line 117
        m1 == [latent_diffusion EXCEPT
                  !.latent_t_size = duration_to_latent_t_size(c.duration)]  \* line 119
        m2 == IF waveform # NoTensor
              THEN set_cond_audio(m1)                                    \* line 123
              ELSE set_cond_text(m1)                                     \* line 126
    IN  IF batch.err # "none"
        THEN [model |-> latent_diffusion, out |-> Fail(o, batch.err, e1)]
        ELSE [model |-> m2,
              out |-> [o EXCEPT !.invoked = TRUE, !.view = m2,           \* line 129
                                !.events = e1 \o <<"generate_sample">>]]

\* lines 195-199: the unconditional conditioning, -1 standing for uc = None
unconditional_always(guidance_scale, batchsize) == batchsize

unconditional_conditioning(guidance_scale, batchsize) ==
    IF guidance_scale # GuidanceOne THEN batchsize ELSE -1

\* line 189
t_enc_of(transfer_strength, ddim_steps) == Trunc(transfer_strength * ddim_steps, 10)

style_transfer(c, latent_diffusion) ==
    LET m1 == set_cond_text(latent_diffusion)                            \* line 155
        o == [Blank(c) EXCEPT !.rng_seed = c.seed]                       \* line 163
        m2 == [m1 EXCEPT
                  !.latent_t_size = duration_to_latent_t_size(c.duration)]  \* line 164
        m3 == [m2 EXCEPT !.embed_mode = "text"]                          \* line 165
        e1 == <<"seed_everything">>
        mel == wav_to_fbank(c.audio, Trunc(c.duration * 1024, 100))      \* line 177
        t_enc == t_enc_of(c.transfer_strength, c.ddim_steps)             \* line 189
        uc == unconditional_conditioning(c.guidance_scale, c.batchsize)  \* lines 195-199
    IN  IF c.audio = NonePath
        THEN [model |-> m3, out |-> Fail(o, "LoadError", e1 \o <<"wav_to_fbank">>)]
        ELSE [model |-> m3,
              out |-> [o EXCEPT
                  !.invoked = TRUE, !.view = m3,
                  !.schedule = make_schedule(c.ddim_steps),              \* line 187
                  !.t_enc = t_enc,
                  !.uc = uc,
                  !.decode_uc = IF uc = -1 THEN "None" ELSE "uc",        \* line 212
                  !.encode_t = t_enc,                                    \* line 204
                  !.decode_t_start = t_enc,                              \* line 210
                  !.timesteps = decode_timesteps(t_enc),
                  !.events = e1 \o <<"wav_to_fbank", "get_first_stage_encoding",
                                     "make_schedule">>
                             \o (IF uc = -1 THEN <<>>
                                 ELSE <<"get_unconditional_condition">>)
                             \o <<"get_learned_conditioning", "stochastic_encode",
                                  "decode", "decode_first_stage",
                                  "decode_to_waveform">>]]

super_resolution_and_inpainting(c, latent_diffusion) ==
    LET o == [Blank(c) EXCEPT !.rng_seed = c.seed]                       \* line 239
        e1 == <<"seed_everything", "wav_to_fbank">>
        mel == wav_to_fbank(c.audio, Trunc(c.duration * 1024, 100))      \* line 256
        batch == make_batch_for_text_to_audio(c.text, NoTensor, <<1>> \o mel,
                                              c.batchsize)               \* line 260
        m1 == set_cond_text(latent_diffusion)                            \* line 263
    IN  IF c.audio = NonePath
        THEN [model |-> latent_diffusion, out |-> Fail(o, "LoadError", e1)]
        ELSE IF batch.err # "none"
        THEN [model |-> latent_diffusion, out |-> Fail(o, batch.err, e1)]
        ELSE [model |-> m1,
              out |-> [o EXCEPT !.invoked = TRUE, !.view = m1,           \* line 266
                                !.events = e1 \o <<"generate_sample_masked">>]]

-----------------------------------------------------------------------------
(* Values of the variables a specification does not use *)

Requests == {1, 2}

IdleRequest ==
    [pc |-> "idle", audio |-> NonePath, duration |-> 0,
     seen |-> NoView, key_by |-> 0, embed_by |-> 0]

NoArgs == [text |-> "", waveform |-> NoTensor, fbank |-> NoTensor,
           batchsize |-> 1, duration |-> 0]

NotCalled == [err |-> "pending", warned |-> FALSE, batch |-> <<>>]

NoWriter == [cond_stage_key |-> 0, embed_mode |-> 0, latent_t_size |-> 0]

PipelineIdle ==
    /\ last = Blank(NoCall)
    /\ memo = Blank(NoCall)

PureIdle ==
    /\ args = NoArgs
    /\ batch_ret = NotCalled
    /\ lts_ret = [called |-> FALSE, value |-> 0]

RequestsIdle ==
    /\ req = [t \in Requests |-> IdleRequest]
    /\ serialized = TRUE
    /\ lock = 0
    /\ writer = NoWriter

pipeline_vars == <<model, last, memo>>
pure_vars == <<args, batch_ret, lts_ret>>
request_vars == <<req, serialized, lock, writer>>

-----------------------------------------------------------------------------
(* Spec: calls of the entry points, one after another, on one model *)

Init ==
    /\ model = BuiltModel
    /\ PipelineIdle /\ PureIdle /\ RequestsIdle

TextToAudio ==
    \E c \in Calls("text_to_audio") :
        LET r == text_to_audio(c, model)
        IN  /\ model' = r.model
            /\ last' = r.out
            /\ UNCHANGED <<memo, pure_vars, request_vars>>

StyleTransfer ==
    \E c \in Calls("style_transfer") :
        LET r == style_transfer(c, model)
        IN  /\ model' = r.model
            /\ last' = r.out
            /\ UNCHANGED <<memo, pure_vars, request_vars>>

SuperResolutionAndInpainting ==
    \E c \in Calls("super_resolution_and_inpainting") :
        LET r == super_resolution_and_inpainting(c, model)
        IN  /\ model' = r.model
            /\ last' = r.out
            /\ UNCHANGED <<memo, pure_vars, request_vars>>

Next == TextToAudio \/ StyleTransfer \/ SuperResolutionAndInpainting

Spec == Init /\ [][Next]_vars

-----------------------------------------------------------------------------
(* SpecRepeat: the same calls, with one earlier call and its result kept    *)
(* so that a later call with the same arguments can be compared with it    *)

Remember(out) == \E keep \in BOOLEAN : memo' = IF keep THEN out ELSE memo

RepeatTextToAudio ==
    \E c \in DetCalls("text_to_audio") :
        LET r == text_to_audio(c, model)
        IN  /\ model' = r.model
            /\ last' = r.out
            /\ Remember(r.out)
            /\ UNCHANGED <<pure_vars, request_vars>>

RepeatStyleTransfer ==
    \E c \in DetCalls("style_transfer") :
        LET r == style_transfer(c, model)
        IN  /\ model' = r.model
            /\ last' = r.out
            /\ Remember(r.out)
            /\ UNCHANGED <<pure_vars, request_vars>>

RepeatSuperResolutionAndInpainting ==
    \E c \in DetCalls("super_resolution_and_inpainting") :
        LET r == super_resolution_and_inpainting(c, model)
        IN  /\ model' = r.model
            /\ last' = r.out
            /\ Remember(r.out)
            /\ UNCHANGED <<pure_vars, request_vars>>

NextRepeat ==
    RepeatTextToAudio \/ RepeatStyleTransfer \/ RepeatSuperResolutionAndInpainting

SpecRepeat == Init /\ [][NextRepeat]_vars

-----------------------------------------------------------------------------
(* SpecPure: the two pure functions applied to inputs drawn at the start *)

WaveformInputs ==
    {NoTensor, <<160000>>} \cup {<<k, 160000>> : k \in 1..MaxLead}

FbankInputs ==
    {NoTensor, <<1024, 64>>} \cup {<<k, 1024, 64>> : k \in 1..MaxLead}

PureArgs ==
    [text : Texts, waveform : WaveformInputs, fbank : FbankInputs,
     batchsize : (-MaxNegBatch)..MaxBatch, duration : (-MaxNegDur)..MaxDur]

InitPure ==
    /\ args \in PureArgs
    /\ batch_ret = NotCalled
    /\ lts_ret = [called |-> FALSE, value |-> 0]
    /\ model = BuiltModel
    /\ PipelineIdle /\ RequestsIdle

MakeBatch ==
    /\ batch_ret = NotCalled
    /\ batch_ret' = make_batch_for_text_to_audio(args.text, args.waveform,
                                                 args.fbank, args.batchsize)
    /\ UNCHANGED <<args, lts_ret, pipeline_vars, request_vars>>

DurationToLatentTSize ==
    /\ ~lts_ret.called
    /\ lts_ret' = [called |-> TRUE, value |-> duration_to_latent_t_size(args.duration)]
    /\ UNCHANGED <<args, batch_ret, pipeline_vars, request_vars>>

NextPure == MakeBatch \/ DurationToLatentTSize

SpecPure == InitPure /\ [][NextPure]_vars

-----------------------------------------------------------------------------
(* SpecRequests: two text_to_audio requests on one model object, each       *)
(* advancing one statement at a time; the caller either holds a lock        *)
(* around each request (serialized) or does not                             *)

InitRequests ==
    /\ model = BuiltModel
    /\ req = [t \in Requests |-> IdleRequest]
    /\ serialized \in BOOLEAN
    /\ lock = 0
    /\ writer = NoWriter
    /\ PipelineIdle /\ PureIdle

\* lines 111-117: seed, read the reference audio, build the batch
Begin(t) ==
    /\ req[t].pc = "idle"
    /\ serialized => lock = 0
    /\ lock' = IF serialized THEN t ELSE lock
    /\ \E a \in AudioPaths, d \in Durations :
          req' = [req EXCEPT ![t] = [IdleRequest EXCEPT !.pc = "l119", !.audio = a,
                                                        !.duration = d]]
    /\ UNCHANGED <<model, writer, serialized, last, memo, pure_vars>>

\* line 119
SetLatentTSize(t) ==
    /\ req[t].pc = "l119"
    /\ model' = [model EXCEPT
                    !.latent_t_size = duration_to_latent_t_size(req[t].duration)]
    /\ writer' = [writer EXCEPT !.latent_t_size = t]
    /\ req' = [req EXCEPT ![t].pc = "key"]
    /\ UNCHANGED <<lock, serialized, last, memo, pure_vars>>

\* lines 121-126: which selector the request calls
set_cond(audio, latent_diffusion) ==
    IF audio # NonePath THEN set_cond_audio(latent_diffusion)
    ELSE set_cond_text(latent_diffusion)

\* line 90 or line 95
SetCondStageKey(t) ==
    /\ req[t].pc = "key"
    /\ model' = [model EXCEPT
                    !.cond_stage_key = set_cond(req[t].audio, model).cond_stage_key]
    /\ writer' = [writer EXCEPT !.cond_stage_key = t]
    /\ req' = [req EXCEPT ![t].pc = "embed"]
    /\ UNCHANGED <<lock, serialized, last, memo, pure_vars>>

\* line 91 or line 96
SetEmbedMode(t) ==
    /\ req[t].pc = "embed"
    /\ model' = [model EXCEPT
                    !.embed_mode = set_cond(req[t].audio, model).embed_mode]
    /\ writer' = [writer EXCEPT !.embed_mode = t]
    /\ req' = [req EXCEPT ![t].pc = "l129"]
    /\ UNCHANGED <<lock, serialized, last, memo, pure_vars>>

\* line 129: generate_sample reads the model's fields
GenerateSample(t) ==
    /\ req[t].pc = "l129"
    /\ req' = [req EXCEPT ![t].pc = "done", ![t].seen = model,
                          ![t].key_by = writer.cond_stage_key,
                          ![t].embed_by = writer.embed_mode]
    /\ lock' = IF serialized THEN 0 ELSE lock
    /\ UNCHANGED <<model, writer, serialized, last, memo, pure_vars>>

\* line 136
Return(t) ==
    /\ req[t].pc = "done"
    /\ req' = [req EXCEPT ![t] = IdleRequest]
    /\ UNCHANGED <<model, writer, lock, serialized, last, memo, pure_vars>>

NextRequests ==
    \E t \in Requests :
        \/ Begin(t)
        \/ SetLatentTSize(t)
        \/ SetCondStageKey(t)
        \/ SetEmbedMode(t)
        \/ GenerateSample(t)
        \/ Return(t)

SpecRequests == InitRequests /\ [][NextRequests]_vars

-----------------------------------------------------------------------------
(* Claims about make_batch_for_text_to_audio and duration_to_latent_t_size, *)
(* under SpecPure                                                          *)

BatchReturned == batch_ret.err = "none"
BatchCalled == batch_ret # NotCalled

\* a supplied tensor of full rank whose leading size is neither 1 nor b
Mismatch(t, rank, b) == t # NoTensor /\ Len(t) = rank /\ t[1] # 1 /\ t[1] # b

\* the leading sizes and list lengths of a returned batch are all n
BatchOfSize(n) ==
    /\ Len(batch_ret.batch) = 6
    /\ batch_ret.batch[1][1] = n
    /\ batch_ret.batch[2][1] = n
    /\ Len(batch_ret.batch[4]) = n
    /\ batch_ret.batch[5][1] = n
    /\ Len(batch_ret.batch[6]) = n

\* C1: for batchsize >= 1, a call whose optional inputs are absent or
\* broadcastable returns, and every returned batch is a 6-tuple whose text
\* and filename lists have length batchsize and whose fbank, stft and
\* waveform tensors have leading dimension batchsize
C1_BatchShape ==
    (BatchCalled /\ args.batchsize >= 1) =>
        /\ (~Mismatch(args.fbank, 3, args.batchsize)
            /\ ~Mismatch(args.waveform, 2, args.batchsize)) => BatchReturned
        /\ BatchReturned => BatchOfSize(args.batchsize)

C1_Witness ==
    /\ BatchReturned
    /\ args.batchsize = 2
    /\ args.waveform = <<1, 160000>>
    /\ args.fbank = NoTensor
    /\ batch_ret.batch[5] = <<2, 160000>>
    /\ Len(batch_ret.batch[6]) = 2

\* C4 as claimed: for every batchsize < 1 the call warns, does not raise and
\* returns a batch built from that value
C4_Original ==
    (BatchCalled /\ args.batchsize < 1
        /\ args.waveform = NoTensor /\ args.fbank = NoTensor) =>
        /\ batch_ret.warned
        /\ BatchReturned
        /\ Len(batch_ret.batch) = 6

\* C4 amended: for every batchsize < 1 the warning is printed and the value
\* is not clamped; batchsize = 0 without optional inputs returns an empty
\* batch (lists of length 0, tensors of leading dimension 0); every negative
\* batchsize makes the tensor construction raise and no batch is returned
C4_WarnsAndContinues ==
    (BatchCalled /\ args.batchsize < 1) =>
        /\ batch_ret.warned
        /\ (args.batchsize = 0 /\ args.waveform = NoTensor /\ args.fbank = NoTensor)
              => (BatchReturned /\ BatchOfSize(0))
        /\ args.batchsize < 0
              => (batch_ret.err \in {"RuntimeError", "AssertionError"}
                  /\ batch_ret.batch = <<>>)

C4_Witness ==
    /\ BatchCalled
    /\ args.batchsize = -1
    /\ args.waveform = NoTensor /\ args.fbank = NoTensor
    /\ batch_ret.warned
    /\ batch_ret.err = "RuntimeError"

\* C5 as claimed: a supplied input whose leading size does not match
\* batchsize makes the call fail through the assertion
C5_Original ==
    (BatchCalled /\ args.batchsize >= 1
        /\ (Mismatch(args.fbank, 3, args.batchsize)
            \/ Mismatch(args.waveform, 2, args.batchsize))) =>
        /\ batch_ret.err = "AssertionError"
        /\ batch_ret.batch = <<>>

\* C5 amended: a supplied input whose leading size is neither 1 nor batchsize
\* makes the call fail and no batch is returned, through the RuntimeError of
\* Tensor.expand and not through the assertion; the assertion fails only for
\* batchsize = -1; a batch returned with a supplied input has that input's
\* leading size equal to batchsize
C5_MismatchFails ==
    BatchCalled =>
        /\ (Mismatch(args.fbank, 3, args.batchsize)
            \/ Mismatch(args.waveform, 2, args.batchsize))
              => (~BatchReturned /\ batch_ret.batch = <<>>)
        /\ batch_ret.err = "AssertionError" => args.batchsize = -1
        /\ (BatchReturned /\ args.fbank # NoTensor)
              => batch_ret.batch[1][1] = args.batchsize
        /\ (BatchReturned /\ args.waveform # NoTensor)
              => batch_ret.batch[5][1] = args.batchsize

C5_Witness ==
    /\ BatchCalled
    /\ args.batchsize = 2
    /\ args.fbank = <<3, 1024, 64>>
    /\ batch_ret.err = "RuntimeError"
    /\ batch_ret.batch = <<>>

\* C6 as claimed: duration_to_latent_t_size(d) = floor(d * 25.6) for every d
C6_Original ==
    lts_ret.called => lts_ret.value = Floor(args.duration * 256, 100)

\* C6 amended: duration_to_latent_t_size(d) is d * 25.6 truncated toward
\* zero: floor(d * 25.6) for d >= 0 (d = 10 gives 256) and ceil(d * 25.6)
\* for d < 0
C6_TruncatesTowardZero ==
    lts_ret.called =>
        LET v == lts_ret.value
            x == args.duration * 256        \* d * 25.6, in hundredths
        IN  /\ args.duration >= 0 => (100 * v <= x /\ x < 100 * (v + 1))
            /\ args.duration < 0 => (100 * (v - 1) < x /\ x <= 100 * v)

C6_Witness ==
    /\ lts_ret.called
    /\ args.duration = 100
    /\ lts_ret.value = 256

-----------------------------------------------------------------------------
(* Claims about the entry points, under Spec and SpecRepeat *)

TextMode(m) == m.cond_stage_key = "text" /\ m.embed_mode = "text"
AudioMode(m) == m.cond_stage_key = "waveform" /\ m.embed_mode = "audio"

\* the place of event e in a call's events, 0 when it did not happen
Place(events, e) ==
    IF \E i \in 1..Len(events) : events[i] = e
    THEN CHOOSE i \in 1..Len(events) : events[i] = e
    ELSE 0

\* C2 as claimed: every entry point invokes its sampler in AUDIO mode when a
\* reference audio file is given and in TEXT mode when it is absent
C2_Original ==
    last.invoked =>
        IF last.call.audio # NonePath THEN AudioMode(last.view) ELSE TextMode(last.view)

\* C2 amended: text_to_audio invokes its sampler in AUDIO mode when a
\* reference audio file is given and in TEXT mode when it is absent;
\* style_transfer and super_resolution_and_inpainting, which reach the sampler
\* only with a reference audio file, always invoke it in TEXT mode; in all
\* three the mode at the sampler depends on the current call alone
C2_ModeFromCurrentCall ==
    last.invoked =>
        IF last.call.entry = "text_to_audio"
        THEN IF last.call.audio # NonePath
             THEN AudioMode(last.view) ELSE TextMode(last.view)
        ELSE last.call.audio # NonePath /\ TextMode(last.view)

C2_Witness ==
    /\ last.invoked
    /\ last.call.entry = "style_transfer"
    /\ last.call.audio # NonePath
    /\ TextMode(last.view)

\* C3: two calls with the same seed and the same arguments give the same
\* result whatever calls came between them, and every random draw of a call
\* comes after its seed_everything
C3_Original ==
    /\ (memo.call.entry # "none" /\ memo.call = last.call) => memo = last
    /\ \A i \in 1..Len(last.events) :
          last.events[i] \in RandomDraws =>
              (Place(last.events, "seed_everything") \in 1..(i - 1)
               /\ last.rng_seed = last.call.seed)

\* C7: in style_transfer, guidance_scale = 1.0 computes no unconditional
\* conditioning and hands decode unconditional_conditioning = None; any other
\* guidance_scale computes it for batchsize elements before decode is called
C7_GuidanceOneSkipsUnconditional ==
    (last.call.entry = "style_transfer" /\ last.invoked) =>
        IF last.call.guidance_scale = 10
        THEN /\ Place(last.events, "get_unconditional_condition") = 0
             /\ last.uc = -1
             /\ last.decode_uc = "None"
        ELSE /\ Place(last.events, "get_unconditional_condition") > 0
             /\ Place(last.events, "get_unconditional_condition")
                    < Place(last.events, "decode")
             /\ last.uc = last.call.batchsize
             /\ last.decode_uc = "uc"

C7_Witness ==
    /\ last.call.entry = "style_transfer"
    /\ last.invoked
    /\ last.call.guidance_scale = 10
    /\ last.decode_uc = "None"
    /\ Place(last.events, "decode") > 0

\* C8: whenever an entry point invokes its sampler or generator, the model's
\* latent_t_size is duration_to_latent_t_size(duration) of the current call
C8_Original ==
    last.invoked =>
        last.view.latent_t_size = duration_to_latent_t_size(last.call.duration)

\* C9: in style_transfer start_t = floor(transfer_strength * ddim_steps) is
\* used for stochastic_encode and for decode, decode performs exactly start_t
\* steps from start_t down to 0 (none for transfer_strength = 0, all
\* ddim_steps for transfer_strength = 1), and every timestep used lies inside
\* the schedule built by make_schedule(ddim_steps)
C9_Original ==
    (last.call.entry = "style_transfer" /\ last.invoked) =>
        LET start_t == Floor(last.call.transfer_strength * last.call.ddim_steps, 10)
        IN  /\ last.t_enc = start_t
            /\ last.encode_t = start_t
            /\ last.decode_t_start = start_t
            /\ Len(last.timesteps) = start_t
            /\ last.call.transfer_strength = 0 => last.timesteps = <<>>
            /\ last.call.transfer_strength = 10
                  => Len(last.timesteps) = last.call.ddim_steps
            /\ 0 < Place(last.events, "make_schedule")
            /\ Place(last.events, "make_schedule")
                  < Place(last.events, "stochastic_encode")
            /\ last.schedule = make_schedule(last.call.ddim_steps)
            /\ \A i \in 1..Len(last.timesteps) : last.timesteps[i] \in last.schedule
            /\ last.encode_t \in last.schedule

-----------------------------------------------------------------------------
(* The claim about concurrent requests, under SpecRequests *)

\* the mode request t selected at lines 121-126
Selected(t, m) ==
    IF req[t].audio # NonePath THEN AudioMode(m) ELSE TextMode(m)

\* C10: when the requests on one model are serialized, every request reaches
\* its sampler call with the conditioning mode it selected itself; without
\* serialization a request can reach it with the mode the other one wrote
\* (the state C10_Witness)
C10_SerializedKeepsMode ==
    serialized =>
        \A t \in Requests :
            req[t].pc = "done" =>
                /\ Selected(t, req[t].seen)
                /\ req[t].key_by = t
                /\ req[t].embed_by = t

C10_Witness ==
    /\ ~serialized
    /\ \E t \in Requests :
          /\ req[t].pc = "done"
          /\ ~Selected(t, req[t].seen)
          /\ req[t].key_by # t
          /\ req[t].embed_by # t

====
